---- MODULE Spec2Model ----
(***************************************************************************)
(* Model of the CSIRO Mentor relay (backend/app.py): a FastAPI process     *)
(* that reads its configuration from the environment at import time and    *)
(* then serves GET /health and POST /api/chat.  The chat handler builds    *)
(* one outbound body, awaits one outbound POST to the completion provider  *)
(* and maps the provider's reply, or the exception raised, to the          *)
(* caller-facing response.                                                 *)
(*                                                                         *)
(* Encoding of Python values: None is the string None, a key missing from  *)
(* a JSON object is the string Absent, a Python bool held in an Optional   *)
(* field is PyTrue / PyFalse, an optional JSON member holding a list or an *)
(* object is << >> (missing) or << v >> (present), and a text that the     *)
(* code parses with int() is a sequence of one-character strings.          *)
(***************************************************************************)
EXTENDS Integers, Sequences, FiniteSets, TLC

VARIABLES env, proc, config, pc, request, outbound, calls, reply, response, health

vars == <<env, proc, config, pc, request, outbound, calls, reply, response, health>>

----------------------------------------------------------------------------
(* Bounds of the model *)

MaxTurns == 2
MaxCitations == 2
NumReqs == 2

(* Numbers fixed by the program *)

DefaultStrictness == 1
DefaultMaxTokens == 4096
StrictnessLow == 1
StrictnessHigh == 5

----------------------------------------------------------------------------
(* Python values *)

None == "<None>"
Absent == "<absent>"
PyTrue == "True"
PyFalse == "False"

\* bool(v) of a str-or-None value: None and "" are falsy
Truthy(v) == v # None /\ v # ""

\* os.getenv(name, default) on a variable whose value is None when unset
GetEnv(v, default) == IF v = None THEN default ELSE v

\* dict.get(key) on a member that may be missing: missing gives None
DictGet(v) == IF v = Absent THEN None ELSE v

\* dict.get(key, default)
DictGetOr(v, default) == IF v = Absent THEN default ELSE v

\* str.lower() on the texts the environment may hold for a flag
Lower(s) ==
    CASE s = "True" -> "true"
      [] s = "TRUE" -> "true"
      [] s = "False" -> "false"
      [] OTHER -> s

DigitChars == <<"0", "1", "2", "3", "4", "5", "6", "7", "8", "9">>

IsDigit(c) == \E i \in 1..10 : DigitChars[i] = c

DigitValue(c) == (CHOOSE i \in 1..10 : DigitChars[i] = c) - 1

RECURSIVE DigitsValue(_)
DigitsValue(s) ==
    IF s = << >> THEN 0
    ELSE 10 * DigitsValue(SubSeq(s, 1, Len(s) - 1)) + DigitValue(s[Len(s)])

AllDigits(s) == Len(s) > 0 /\ \A i \in 1..Len(s) : IsDigit(s[i])

\* int(text): an optional sign followed by decimal digits, else ValueError
IntParses(s) ==
    \/ AllDigits(s)
    \/ Len(s) > 1 /\ s[1] \in {"-", "+"} /\ AllDigits(Tail(s))

IntValue(s) ==
    IF s[1] = "-" THEN 0 - DigitsValue(Tail(s))
    ELSE IF s[1] = "+" THEN DigitsValue(Tail(s))
    ELSE DigitsValue(s)

----------------------------------------------------------------------------
(* The environment the process is started in *)

EndpointTexts == {None, "", "https://aoai"}
KeyTexts == {None, "", "key"}
SearchTexts == {None, "https://search"}
FlagTexts == {None, "True", "false"}
PromptTexts == {None, "custom prompt"}
\* RAG_STRICTNESS: unset, or a text
StrictnessTexts == {<< >>, <<<<"0">>>>, <<<<"5">>>>, <<<<"6">>>>, <<<<"x">>>>}

Envs ==
    [AZURE_OPENAI_ENDPOINT : EndpointTexts,
     AZURE_OPENAI_API_KEY : KeyTexts,
     AZURE_SEARCH_ENDPOINT : SearchTexts,
     ENABLE_RAG : FlagTexts,
     RAG_STRICTNESS : StrictnessTexts,
     SYSTEM_PROMPT : PromptTexts]

\* environments of the concurrent specification: credentials present
ConcEnvs ==
    {e \in Envs : /\ e.AZURE_OPENAI_ENDPOINT = "https://aoai"
                  /\ e.AZURE_OPENAI_API_KEY = "key"
                  /\ e.AZURE_SEARCH_ENDPOINT = "https://search"
                  /\ e.RAG_STRICTNESS = << >>
                  /\ e.SYSTEM_PROMPT = None}

BuiltinPrompt == "You are CSIRO Mentor"

\* SYSTEM_PROMPT = os.getenv("SYSTEM_PROMPT", SYSTEM_PROMPT)
SystemPrompt(e) == GetEnv(e.SYSTEM_PROMPT, BuiltinPrompt)

\* the text int() is applied to: os.getenv("RAG_STRICTNESS", "1")
StrictnessText(e) ==
    IF e.RAG_STRICTNESS = << >> THEN <<DigitChars[DefaultStrictness + 1]>>
    ELSE e.RAG_STRICTNESS[1]

\* evaluating the body of class Config raises (int() on a non-number)
ConfigRaises(e) == ~IntParses(StrictnessText(e))

\* class Config, evaluated once at import
LoadedConfig(e) ==
    [AZURE_OPENAI_ENDPOINT |-> e.AZURE_OPENAI_ENDPOINT,
     AZURE_OPENAI_API_KEY |-> e.AZURE_OPENAI_API_KEY,
     AZURE_SEARCH_ENDPOINT |-> e.AZURE_SEARCH_ENDPOINT,
     ENABLE_RAG |-> (Lower(GetEnv(e.ENABLE_RAG, "true")) = "true"),
     MAX_TOKENS |-> DefaultMaxTokens,
     RAG_STRICTNESS |-> IntValue(StrictnessText(e)),
     SYSTEM_PROMPT |-> SystemPrompt(e)]

NoConfig ==
    [AZURE_OPENAI_ENDPOINT |-> None,
     AZURE_OPENAI_API_KEY |-> None,
     AZURE_SEARCH_ENDPOINT |-> None,
     ENABLE_RAG |-> FALSE,
     MAX_TOKENS |-> 0,
     RAG_STRICTNESS |-> 0,
     SYSTEM_PROMPT |-> None]

----------------------------------------------------------------------------
(* Requests of the caller *)

Turns ==
    {[role |-> "system", content |-> "be brief"],
     [role |-> "user", content |-> "question"],
     [role |-> "assistant", content |-> "answer"]}

RECURSIVE SeqsUpTo(_, _)
SeqsUpTo(S, n) ==
    IF n = 0 THEN {<< >>}
    ELSE LET shorter == SeqsUpTo(S, n - 1)
         IN shorter \cup {Append(q, x) : q \in {t \in shorter : Len(t) = n - 1}, x \in S}

\* JSON bodies that validate as ChatRequest; use_rag may be omitted or null
RawRequests ==
    [messages : SeqsUpTo(Turns, MaxTurns), use_rag : {Absent, "true", "false", "null"}]

\* requests of the concurrent specification
ConcRequests ==
    {q \in RawRequests : Len(q.messages) = 1 /\ q.messages[1].role # "system"
                         /\ q.use_rag \in {Absent, "false"}}

NoRequest == [messages |-> << >>, use_rag |-> Absent]

\* class ChatRequest: use_rag: Optional[bool] = True
ParseChatRequest(raw) ==
    [messages |-> raw.messages,
     use_rag |-> CASE raw.use_rag = Absent -> PyTrue
                   [] raw.use_rag = "true" -> PyTrue
                   [] raw.use_rag = "false" -> PyFalse
                   [] OTHER -> None]

\* bool(v) of an Optional[bool]
TruthyFlag(v) == v = PyTrue

----------------------------------------------------------------------------
(* Replies of the provider to one outbound POST *)

ProviderCitations ==
    {[content |-> "excerpt", title |-> "report", filepath |-> "a.pdf"],
     [content |-> Absent, title |-> "slides", filepath |-> Absent]}

\* message.context: missing, present without citations, present with a list
ProviderContexts ==
    {<< >>, <<[citations |-> << >>]>>}
        \cup {<<[citations |-> <<cs>>]>> : cs \in SeqsUpTo(ProviderCitations, MaxCitations)}

\* message.content is a text, or null
ProviderMessages == [content : {"hello", None}, context : ProviderContexts]

NotJsonBody == [json |-> FALSE, error |-> << >>, choices |-> << >>]

\* bodies sent with a non-success status
ErrorBodies ==
    {NotJsonBody,
     [json |-> TRUE, error |-> << >>, choices |-> << >>],
     [json |-> TRUE, error |-> <<[message |-> Absent]>>, choices |-> << >>],
     [json |-> TRUE, error |-> <<[message |-> "rate limited"]>>, choices |-> << >>]}

\* bodies sent with status 200: not JSON, no choices, or one choice
OkBodies ==
    {NotJsonBody, [json |-> TRUE, error |-> << >>, choices |-> << >>]}
        \cup {[json |-> TRUE, error |-> << >>, choices |-> <<[message |-> m]>>] :
                 m \in ProviderMessages}

ErrorStatuses == {401, 429}

Replies ==
    {[kind |-> "timeout", status |-> 0, body |-> NotJsonBody],
     [kind |-> "network", status |-> 0, body |-> NotJsonBody]}
        \cup [kind : {"http"}, status : ErrorStatuses, body : ErrorBodies]
        \cup [kind : {"http"}, status : {200}, body : OkBodies]

\* replies of the concurrent specification
ConcReplies ==
    {p \in Replies :
        \/ p.kind = "timeout"
        \/ p.kind = "http" /\ p.status = 429 /\ p.body.error = <<[message |-> "rate limited"]>>
        \/ /\ p.kind = "http" /\ p.status = 200 /\ p.body.choices # << >>
           /\ p.body.choices[1].message.content = "hello"
           /\ p.body.choices[1].message.context \in
                 {<< >>, <<[citations |-> <<<<[content |-> Absent, title |-> "slides",
                                               filepath |-> Absent]>>>>]>>}}

NoReply == [kind |-> "none", status |-> 0, body |-> NotJsonBody]

----------------------------------------------------------------------------
(* The chat handler *)

\* variant: the precondition tests "is not None" instead of truthiness
ConfiguredNotNone(cfg) ==
    cfg.AZURE_OPENAI_ENDPOINT # None /\ cfg.AZURE_OPENAI_API_KEY # None

\* the precondition of chat(): endpoint and key are both truthy
Configured(cfg) == Truthy(cfg.AZURE_OPENAI_ENDPOINT) /\ Truthy(cfg.AZURE_OPENAI_API_KEY)

\* variant: the caller's system turns are filtered out
BuildMessagesDropSystem(req, cfg) ==
    <<[role |-> "system", content |-> cfg.SYSTEM_PROMPT]>>
        \o SelectSeq(req.messages, LAMBDA m : m.role # "system")

\* variant: the message list is one module-level list shared by all requests
BuildMessagesShared(req, cfg) ==
    LET sent == {q \in DOMAIN calls : calls[q] > 0}
        prior == IF sent = {} THEN << >>
                 ELSE outbound[CHOOSE q \in sent : \A o \in sent :
                          Len(outbound[o].messages) <= Len(outbound[q].messages)].messages
    IN prior \o <<[role |-> "system", content |-> cfg.SYSTEM_PROMPT]>> \o req.messages

\* the system prompt first, then every message of the request
BuildMessages(req, cfg) ==
    <<[role |-> "system", content |-> cfg.SYSTEM_PROMPT]>>
        \o [i \in 1..Len(req.messages) |->
                [role |-> req.messages[i].role, content |-> req.messages[i].content]]

\* variant: the request's use_rag is not consulted
UseDataSourcesIgnoringRequest(req, cfg) ==
    cfg.ENABLE_RAG /\ Truthy(cfg.AZURE_SEARCH_ENDPOINT)

\* the condition under which body["data_sources"] is set
UseDataSources(req, cfg) ==
    TruthyFlag(req.use_rag) /\ cfg.ENABLE_RAG /\ Truthy(cfg.AZURE_SEARCH_ENDPOINT)

DataSource(cfg) ==
    [type |-> "azure_search",
     parameters |-> [endpoint |-> cfg.AZURE_SEARCH_ENDPOINT,
                     strictness |-> cfg.RAG_STRICTNESS]]

\* the JSON body of the outbound POST; data_sources is << >> when the key is not set
BuildBody(req, cfg) ==
    [messages |-> BuildMessages(req, cfg),
     max_tokens |-> cfg.MAX_TOKENS,
     data_sources |-> IF UseDataSources(req, cfg) THEN <<DataSource(cfg)>> ELSE << >>]

NoBody == [messages |-> << >>, max_tokens |-> 0, data_sources |-> << >>]

\* the detail of an HTTPException: a literal text, or str(e) of a caught exception e
Literal(t) == [exc |-> "", code |-> 0, text |-> t]
StrOf(e) == [exc |-> e.type, code |-> e.code, text |-> e.text]

Exc(type, code, text) == [type |-> type, code |-> code, text |-> text]
NoExc == Exc("", 0, "")

NoResponse == [status |-> 0, detail |-> Literal(""), content |-> None, citations |-> << >>]

ErrorResponse(status, detail) ==
    [status |-> status, detail |-> detail, content |-> None, citations |-> << >>]

\* ChatResponse(content=..., citations=...), sent with status 200
ChatResponse(content, citations) ==
    [status |-> 200, detail |-> Literal(""), content |-> content, citations |-> citations]

Raise(e) == [raised |-> TRUE, exc |-> e, resp |-> NoResponse]
Return(v) == [raised |-> FALSE, exc |-> NoExc, resp |-> v]

\* error_data.get("error", {}).get("message", "API Error")
ErrorMessage(body) ==
    IF body.error = << >> THEN "API Error"
    ELSE DictGetOr(body.error[1].message, "API Error")

\* variant: title and filepath are exchanged
MapCitationSwapped(c) ==
    [content |-> DictGet(c.content), title |-> DictGet(c.filepath),
     filepath |-> DictGet(c.title)]

\* Citation(content=c.get("content"), title=c.get("title"), filepath=c.get("filepath"))
MapCitation(c) ==
    [content |-> DictGet(c.content), title |-> DictGet(c.title),
     filepath |-> DictGet(c.filepath)]

\* the citations of the first choice's message, [] without context or citations
ExtractCitations(msg) ==
    IF msg.context = << >> THEN << >>
    ELSE LET cs == IF msg.context[1].citations = << >> THEN << >>
                   ELSE msg.context[1].citations[1]
         IN [i \in 1..Len(cs) |-> MapCitation(cs[i])]

\* the body of the try statement from the return of client.post() on
AfterPost(rep) ==
    CASE rep.kind = "timeout" -> Raise(Exc("TimeoutException", 0, ""))
      [] rep.kind = "network" -> Raise(Exc("ConnectError", 0, ""))
      [] OTHER ->
           IF ~rep.body.json THEN Raise(Exc("JSONDecodeError", 0, ""))
           ELSE IF rep.status # 200
                THEN Raise(Exc("HTTPException", rep.status, ErrorMessage(rep.body)))
           ELSE IF rep.body.choices = << >> THEN Raise(Exc("KeyError", 0, "choices"))
           ELSE LET msg == rep.body.choices[1].message
                IN IF msg.content = None THEN Raise(Exc("ValidationError", 0, "content"))
                   ELSE Return(ChatResponse(msg.content, ExtractCitations(msg)))

\* variant: the generic except clause comes first
HandleExceptionGenericFirst(e) == ErrorResponse(500, StrOf(e))

\* the except clauses of chat(), in their order
HandleException(e) ==
    IF e.type = "TimeoutException" THEN ErrorResponse(504, Literal("Request timeout"))
    ELSE ErrorResponse(500, StrOf(e))

\* what the caller receives once the awaited POST has completed with rep
Respond(rep) ==
    LET out == AfterPost(rep)
    IN IF out.raised THEN HandleException(out.exc) ELSE out.resp

----------------------------------------------------------------------------
(* The health endpoint *)

NoHealth == [status |-> "", code |-> 0, rag_enabled |-> FALSE]

\* variant: health reports the provider credentials
HealthResponseProbing(cfg) ==
    IF Truthy(cfg.AZURE_OPENAI_ENDPOINT) /\ Truthy(cfg.AZURE_OPENAI_API_KEY)
    THEN [status |-> "healthy", code |-> 200, rag_enabled |-> cfg.ENABLE_RAG]
    ELSE [status |-> "unhealthy", code |-> 503, rag_enabled |-> cfg.ENABLE_RAG]

HealthResponse(cfg) == [status |-> "healthy", code |-> 200, rag_enabled |-> cfg.ENABLE_RAG]

----------------------------------------------------------------------------
(* Actions *)

Reqs == 1..NumReqs

InitFrom(E) ==
    /\ env \in E
    /\ proc = "loading"
    /\ config = NoConfig
    /\ pc = [r \in Reqs |-> "idle"]
    /\ request = [r \in Reqs |-> NoRequest]
    /\ outbound = [r \in Reqs |-> NoBody]
    /\ calls = [r \in Reqs |-> 0]
    /\ reply = [r \in Reqs |-> NoReply]
    /\ response = [r \in Reqs |-> NoResponse]
    /\ health = NoHealth

Init == InitFrom(Envs)

InitConc == InitFrom(ConcEnvs)

\* import of the module: class Config is evaluated, or the import raises
LoadConfig ==
    /\ proc = "loading"
    /\ IF ConfigRaises(env)
       THEN proc' = "crashed" /\ UNCHANGED config
       ELSE proc' = "serving" /\ config' = LoadedConfig(env)
    /\ UNCHANGED <<env, pc, request, outbound, calls, reply, response, health>>

\* GET /health
HealthCheck ==
    /\ proc = "serving"
    /\ health' = HealthResponse(config)
    /\ UNCHANGED <<env, proc, config, pc, request, outbound, calls, reply, response>>

\* POST /api/chat up to the await of client.post(), or up to the raise of the
\* precondition
ChatCall(r, raw) ==
    /\ proc = "serving"
    /\ pc[r] = "idle"
    /\ request' = [request EXCEPT ![r] = raw]
    /\ IF ~Configured(config)
       THEN /\ pc' = [pc EXCEPT ![r] = "done"]
            /\ response' = [response EXCEPT ![r] =
                   ErrorResponse(500, Literal("Azure OpenAI not configured"))]
            /\ UNCHANGED <<outbound, calls>>
       ELSE /\ pc' = [pc EXCEPT ![r] = "awaiting"]
            /\ outbound' = [outbound EXCEPT ![r] = BuildBody(ParseChatRequest(raw), config)]
            /\ calls' = [calls EXCEPT ![r] = @ + 1]
            /\ UNCHANGED response
    /\ UNCHANGED <<env, proc, config, reply, health>>

\* variant: a timed-out POST is issued once more
ChatResumeRetrying(r, rep) ==
    /\ pc[r] = "awaiting"
    /\ reply' = [reply EXCEPT ![r] = rep]
    /\ IF rep.kind = "timeout" /\ calls[r] < 2
       THEN /\ calls' = [calls EXCEPT ![r] = @ + 1]
            /\ UNCHANGED <<pc, response>>
       ELSE /\ response' = [response EXCEPT ![r] = Respond(rep)]
            /\ pc' = [pc EXCEPT ![r] = "done"]
            /\ UNCHANGED calls
    /\ UNCHANGED <<env, proc, config, request, outbound, health>>

\* the awaited POST completes with rep; the handler runs to its end
ChatResume(r, rep) ==
    /\ pc[r] = "awaiting"
    /\ reply' = [reply EXCEPT ![r] = rep]
    /\ response' = [response EXCEPT ![r] = Respond(rep)]
    /\ pc' = [pc EXCEPT ![r] = "done"]
    /\ UNCHANGED <<env, proc, config, request, outbound, calls, health>>

\* one chat request at a time, every request and reply of the model
Next ==
    \/ LoadConfig
    \/ HealthCheck
    \/ \E raw \in RawRequests : ChatCall(1, raw)
    \/ \E rep \in Replies : ChatResume(1, rep)

Spec == Init /\ [][Next]_vars

\* NumReqs chat requests handled concurrently
NextConc ==
    \/ LoadConfig
    \/ HealthCheck
    \/ \E r \in Reqs, raw \in ConcRequests : ChatCall(r, raw)
    \/ \E r \in Reqs, rep \in ConcReplies : ChatResume(r, rep)

SpecConc == InitConc /\ [][NextConc]_vars

----------------------------------------------------------------------------
(* Properties *)

Sent(r) == calls[r] > 0

ProviderRejected(r) == pc[r] = "done" /\ reply[r].kind = "http" /\ reply[r].status # 200

\* the message a provider error body carries, else the generic one
CarriedMessage(body) ==
    IF body.json /\ body.error # << >> /\ body.error[1].message # Absent
    THEN body.error[1].message ELSE "API Error"

\* C1: when the provider answers with a non-success status s, the caller
\* receives status s with the provider's error.message as detail when the body
\* carries one, else a generic message; the status is never rewritten.
C1_ProviderStatusForwarded ==
    \A r \in Reqs :
        ProviderRejected(r) =>
            /\ response[r].status = reply[r].status
            /\ response[r].detail = Literal(CarriedMessage(reply[r].body))

\* the 429 "rate limited" case of C1, as the code answers it
C1_RateLimitedSeen ==
    \E r \in Reqs :
        /\ ProviderRejected(r)
        /\ reply[r].status = 429
        /\ reply[r].body.error = <<[message |-> "rate limited"]>>
        /\ response[r].status = 500

\* C2: with endpoint and key configured, a POST that times out gives the
\* caller 504 and no other status, after exactly one outbound call.
C2_TimeoutGives504 ==
    \A r \in Reqs :
        (pc[r] = "done" /\ reply[r].kind = "timeout") =>
            /\ response[r].status = 504
            /\ calls[r] = 1

C2_Witness ==
    \E r \in Reqs :
        /\ pc[r] = "done" /\ reply[r].kind = "timeout"
        /\ env.AZURE_OPENAI_ENDPOINT = "https://aoai" /\ env.AZURE_OPENAI_API_KEY = "key"
        /\ response[r].status = 504

CredentialMissing ==
    \/ env.AZURE_OPENAI_ENDPOINT \in {None, ""}
    \/ env.AZURE_OPENAI_API_KEY \in {None, ""}

\* C3: when the provider endpoint or API key is absent or empty, every chat
\* invocation fails with 500 and no outbound call is ever issued for it.
C3_UnconfiguredFailsBeforeCall ==
    CredentialMissing =>
        \A r \in Reqs :
            /\ calls[r] = 0
            /\ outbound[r] = NoBody
            /\ pc[r] # "awaiting"
            /\ pc[r] = "done" => response[r].status = 500

C3_Witness ==
    \E r \in Reqs :
        /\ pc[r] = "done"
        /\ env.AZURE_OPENAI_ENDPOINT = "https://aoai" /\ env.AZURE_OPENAI_API_KEY = ""
        /\ Len(request[r].messages) > 0
        /\ response[r].status = 500

\* C4: the outbound body has data_sources exactly when the request's use_rag
\* is true (an omitted use_rag counts as true), retrieval is enabled in the
\* configuration and a retrieval endpoint is configured.
C4_DataSourcesIff ==
    \A r \in Reqs :
        Sent(r) =>
            (outbound[r].data_sources # << >>
                <=> /\ request[r].use_rag \in {"true", Absent}
                    /\ config.ENABLE_RAG
                    /\ config.AZURE_SEARCH_ENDPOINT \notin {None, ""})

C4_Witness ==
    \E r \in Reqs :
        /\ Sent(r)
        /\ request[r].use_rag = Absent
        /\ outbound[r].data_sources # << >>

\* C5: whenever an outbound body carries data_sources, its strictness equals
\* the configured one and lies in 1..5, and the process never serves with a
\* configured strictness outside 1..5.
C5_StrictnessInRange ==
    /\ proc = "serving" => config.RAG_STRICTNESS \in StrictnessLow..StrictnessHigh
    /\ \A r \in Reqs :
           (Sent(r) /\ outbound[r].data_sources # << >>) =>
               /\ outbound[r].data_sources[1].parameters.strictness = config.RAG_STRICTNESS
               /\ outbound[r].data_sources[1].parameters.strictness
                      \in StrictnessLow..StrictnessHigh

\* C6: a request of N turns is forwarded as N+1 messages: the system message
\* holding the configured instruction text, then the N turns in their order
\* with role and content unchanged.
C6_MessagesForwarded ==
    \A r \in Reqs :
        Sent(r) =>
            LET m == outbound[r].messages
                t == request[r].messages
            IN /\ Len(m) = Len(t) + 1
               /\ m[1].role = "system"
               /\ m[1].content = GetEnv(env.SYSTEM_PROMPT, BuiltinPrompt)
               /\ \A i \in 1..Len(t) :
                      m[i + 1].role = t[i].role /\ m[i + 1].content = t[i].content

C6_Witness ==
    \E r \in Reqs :
        /\ Sent(r)
        /\ Len(request[r].messages) >= 2
        /\ request[r].messages[1].role = "assistant"
        /\ request[r].messages[2].role = "system"
        /\ Len(outbound[r].messages) = Len(request[r].messages) + 1

\* the provider answered 200 with a first choice whose content is a text
ProviderSucceeded(r) ==
    /\ pc[r] = "done" /\ reply[r].kind = "http" /\ reply[r].status = 200
    /\ reply[r].body.json /\ reply[r].body.choices # << >>
    /\ reply[r].body.choices[1].message.content # None

\* C7: on provider success the response's content is choices[0].message.content
\* and citations maps context.citations in order onto content/title/filepath,
\* a missing field becoming null; without context or citations it is empty.
C7_SuccessProjected ==
    \A r \in Reqs :
        ProviderSucceeded(r) =>
            LET msg == reply[r].body.choices[1].message
                got == response[r].citations
            IN /\ response[r].status = 200
               /\ response[r].content = msg.content
               /\ IF msg.context = << >> \/ msg.context[1].citations = << >>
                  THEN got = << >>
                  ELSE LET cs == msg.context[1].citations[1]
                       IN /\ Len(got) = Len(cs)
                          /\ \A i \in 1..Len(cs) :
                                /\ got[i].content =
                                     IF cs[i].content = Absent THEN None ELSE cs[i].content
                                /\ got[i].title =
                                     IF cs[i].title = Absent THEN None ELSE cs[i].title
                                /\ got[i].filepath =
                                     IF cs[i].filepath = Absent THEN None ELSE cs[i].filepath

C7_Witness ==
    \E r \in Reqs :
        /\ ProviderSucceeded(r)
        /\ Len(response[r].citations) = 2
        /\ response[r].citations[1].filepath = None
        /\ response[r].citations[2].filepath = "a.pdf"

\* C8: an invocation that passes the precondition issues exactly one outbound
\* POST whatever its outcome, never a second one, and ends with exactly one
\* response.
C8_OneCallOneResponse ==
    \A r \in Reqs :
        /\ calls[r] <= 1
        /\ pc[r] = "idle" => calls[r] = 0 /\ response[r] = NoResponse
        /\ pc[r] = "awaiting" => calls[r] = 1 /\ response[r] = NoResponse
        /\ pc[r] = "done" => /\ response[r] # NoResponse
                             /\ ~CredentialMissing => calls[r] = 1
                             /\ reply[r] # NoReply => calls[r] = 1

C8_Witness ==
    \E r \in Reqs :
        /\ pc[r] = "done" /\ reply[r].kind = "timeout"
        /\ calls[r] = 1
        /\ response[r] # NoResponse

\* C9: GET /health answers "healthy" with 200 in every state of the serving
\* process, whatever the credentials and the chat requests, and handling it
\* issues no outbound call.
C9_HealthAlwaysHealthy ==
    /\ [](proc = "serving" => ENABLED HealthCheck)
    /\ [](health # NoHealth => health.status = "healthy" /\ health.code = 200)
    /\ [][health' # health => calls' = calls /\ outbound' = outbound]_vars

C9_Witness ==
    /\ health # NoHealth
    /\ CredentialMissing
    /\ \E r \in Reqs : pc[r] = "done" /\ response[r].status = 500

\* C10: the configuration is never modified after startup, a step of one
\* request changes no other request's outbound body or response, and two
\* requests with the same input send the same body and, given the same
\* provider reply, receive the same response.
C10_RequestsIndependent ==
    /\ [][proc = "serving" => config' = config /\ env' = env]_vars
    /\ [][\A r \in Reqs : pc'[r] = pc[r] =>
              /\ outbound'[r] = outbound[r]
              /\ response'[r] = response[r]
              /\ calls'[r] = calls[r]]_vars
    /\ [](\A r, q \in Reqs :
              /\ (Sent(r) /\ Sent(q) /\ request[r] = request[q])
                     => outbound[r] = outbound[q]
              /\ (pc[r] = "done" /\ pc[q] = "done" /\ request[r] = request[q]
                    /\ reply[r] = reply[q]) => response[r] = response[q])

C10_Witness ==
    \E r, q \in Reqs :
        /\ r # q
        /\ pc[r] = "awaiting"
        /\ pc[q] = "done" /\ reply[q].kind = "timeout"
        /\ request[r] = request[q]
        /\ Len(request[r].messages) > 0

====
